---------------------------- MODULE Spec2Model ----------------------------
(***************************************************************************)
(* emaillib: the delivery protocol of Mailer.send / Mailer._send and the   *)
(* lazily generated admin batches of AdminMailer.send.                     *)
(*                                                                         *)
(* Spec       one Mailer, one send invocation, the SMTP server's answers   *)
(*            chosen nondeterministically at every step.                   *)
(* SpecAdmin  one AdminMailer, several send calls whose batches are        *)
(*            generated and sent on background threads.                    *)
(***************************************************************************)
EXTENDS Naturals, Sequences, FiniteSets

VARIABLES
    ssl,            \* Mailer.ssl: "None", "True" or "False"
    passwd,         \* Mailer._passwd
    pc,             \* position of the send invocation
    background,     \* the background argument of Mailer.send
    emails,         \* the emails argument of Mailer.send
    idx,            \* number of emails the for loop of _send has consumed
    result,         \* the local variable result of _send
    smtp,           \* the SMTP session: "none", "open" or "closed"
    ops,            \* the SMTP operations performed, in order
    attempts,       \* the send_message calls made, in order, with their outcome
    log,            \* records emitted on Mailer.logger
    stdout,         \* lines printed on standard output
    raised,         \* the exception that left _send ("none" if none)
    returned,       \* what the caller of Mailer.send got back
    caller_exc,     \* the exception raised to the caller of Mailer.send
    starttls_outcome, \* how smtp.starttls() ended ("none" if not called)
    login_outcome,  \* how smtp.login() ended ("none" if not called)
    issuer_name,    \* the issuer's volatile data, as a version number
    issuer_snapshot,\* AdminMailer.issuer_snapshot
    calls,          \* number of AdminMailer.send calls made
    call_snapshot,  \* per call: the snapshot taken at the start of the call
    tpc,            \* per call: position of its background thread
    gen_idx,        \* per call: number of admins the mails generator has consumed
    mails           \* per call: the messages generated, with the snapshot used

mailerVars == <<ssl, passwd, pc, background, emails, idx, result, smtp, ops,
                attempts, log, stdout, raised, returned, caller_exc,
                starttls_outcome, login_outcome>>
adminVars == <<issuer_name, issuer_snapshot, calls, call_snapshot, tpc,
               gen_idx, mails>>
vars == <<mailerVars, adminVars>>

(***************************************************************************)
(* Bounds and inputs                                                       *)
(***************************************************************************)
MaxBatch == 3
MaxVersion == 3
MaxCalls == 2
NumAdmins == 2

Recipients == {"a", "b"}
Secrets == {"secret1", "secret2"}
SslValues == {"None", "True", "False"}

smtp_server == "host"
smtp_port == "port"
login_name == "user"

RECURSIVE SeqsUpTo(_, _)
SeqsUpTo(S, n) ==
    IF n = 0 THEN {<<>>}
    ELSE LET shorter == SeqsUpTo(S, n - 1)
         IN shorter \cup {Append(s, x) : s \in {t \in shorter : Len(t) = n - 1}, x \in S}

Batches == SeqsUpTo(Recipients, MaxBatch)

Range(s) == {s[i] : i \in DOMAIN s}


(***************************************************************************)
(* Mailer: pure parts of the code                                          *)
(***************************************************************************)

\* Mailer.__str__: the credential is rendered as a fixed mask.
MailerStr == <<login_name, ":*****@", smtp_server, ":", smtp_port>>

\* The arguments of the print call at the start of _send.
DebugLine(pw) == <<"DEBUG:", smtp_server, login_name, pw, smtp_port>>

\* `if self.ssl is None or self.ssl`: whether _send calls smtp.starttls().
AttemptsStartTLS(s) == s = "None" \/ s = "True"

\* The exceptions of smtp.starttls() that the except clause of _send catches.
CaughtByStartTLS == {"SSLError", "SMTPException"}

\* `if self.ssl: raise`: whether a caught starttls failure is raised again.
NegotiationFatalUnlessDisabled(s) == s # "False"
NegotiationNeverFatal(s) == FALSE
NegotiationFatal(s) == s = "True"

ClearTextWarning == <<"warning", "Connecting without SSL/TLS encryption.">>
CaughtException(email) == <<"error", "Caught exception: %s.", email>>

\* The body of the except clause of the loop: result = False.
ResultIsLastOutcome(res, ok) == ok
ResultAfter(res, ok) == IF ok THEN res ELSE FALSE

\* The for loop of _send: each email is taken once, whatever the outcome.
RetryFailedEmail(i, ok) == IF ok THEN i + 1 ELSE i
NextIndex(i, ok) == i + 1

\* Leaving the `with SMTP(...) as smtp` block, normally or by an exception:
\* SMTP.__exit__ closes the session.
LeaveSessionOpen(s) == s
ExitSession(s) == "closed"

\* Mailer.send: a background call returns the started Thread at once; a
\* foreground call returns what _send returns.
BoolValue(b) == IF b THEN "True" ELSE "False"
SendReturn(bg, value) == IF bg THEN "Thread" ELSE value

\* Mailer.send: an exception leaving _send reaches the caller of send only
\* in a foreground call; in a background call it ends the thread.
NeverRaiseToCaller(bg, exc) == "none"
RaiseToCaller(bg, exc) == IF bg THEN "none" ELSE exc

\* The failed emails a value returned by send carries: _send returns the bool
\* result and send returns that or a Thread; neither carries a collection.
FailedCollection(value) == <<>>

(***************************************************************************)
(* Mailer: the send invocation                                             *)
(***************************************************************************)

MailerInit ==
    /\ ssl \in SslValues
    /\ passwd \in Secrets
    /\ pc = "idle"
    /\ background = FALSE
    /\ emails = <<>>
    /\ idx = 0
    /\ result = TRUE
    /\ smtp = "none"
    /\ ops = <<>>
    /\ attempts = <<>>
    /\ log = <<>>
    /\ stdout = <<>>
    /\ raised = "none"
    /\ returned = "pending"
    /\ caller_exc = "none"
    /\ starttls_outcome = "none"
    /\ login_outcome = "none"

\* IssuerSnapshot.__init__: copies the issuer's volatile data as it is now.
IssuerSnapshot(name) == [name |-> name]

\* AdminMailer.__init__ takes a first snapshot; no send call was made yet.
AdminIdle ==
    /\ issuer_name = 1
    /\ issuer_snapshot = IssuerSnapshot(issuer_name)
    /\ calls = 0
    /\ call_snapshot = [c \in 1..MaxCalls |-> IssuerSnapshot(0)]
    /\ tpc = [c \in 1..MaxCalls |-> "unborn"]
    /\ gen_idx = [c \in 1..MaxCalls |-> 0]
    /\ mails = [c \in 1..MaxCalls |-> <<>>]

\* _send is left by exception exc: the with block is exited first.
Raise(exc) ==
    /\ pc' = "raised"
    /\ raised' = exc
    /\ caller_exc' = RaiseToCaller(background, exc)
    /\ UNCHANGED returned

\* Mailer.send(emails, background): the call itself.
Send ==
    /\ pc = "idle"
    /\ \E batch \in Batches, bg \in BOOLEAN :
          /\ emails' = batch
          /\ background' = bg
          /\ returned' = SendReturn(bg, "pending")
    /\ pc' = "begin"
    /\ UNCHANGED <<ssl, passwd, idx, result, smtp, ops, attempts, log, stdout,
                   raised, caller_exc, starttls_outcome,
                   login_outcome, adminVars>>

\* _send: result = True and the print call.
SendBegin ==
    /\ pc = "begin"
    /\ result' = TRUE
    /\ stdout' = Append(stdout, DebugLine(passwd))
    /\ pc' = "connect"
    /\ UNCHANGED <<ssl, passwd, background, emails, idx, smtp, ops, attempts,
                   log, raised, returned, caller_exc, starttls_outcome,
                   login_outcome, adminVars>>

\* _send: SMTP(host=..., port=...) connects, or raises before the with block
\* is entered (no session was opened).
Connect ==
    /\ pc = "connect"
    /\ \/ /\ smtp' = "open"
          /\ ops' = Append(ops, "connect")
          /\ pc' = IF AttemptsStartTLS(ssl) THEN "starttls" ELSE "login"
          /\ UNCHANGED <<raised, returned, caller_exc>>
       \/ /\ Raise("SMTPConnectError")
          /\ UNCHANGED <<smtp, ops>>
    /\ UNCHANGED <<ssl, passwd, background, emails, idx, result, attempts, log,
                   stdout, starttls_outcome,
                   login_outcome, adminVars>>

\* _send: smtp.starttls() and its except clause.
StartTLS ==
    /\ pc = "starttls"
    /\ \/ /\ starttls_outcome' = "ok"
          /\ ops' = Append(ops, "starttls")
          /\ pc' = "login"
          /\ UNCHANGED <<smtp, log, raised, returned, caller_exc>>
       \/ \E exc \in CaughtByStartTLS :
             /\ starttls_outcome' = exc
             /\ IF NegotiationFatal(ssl)
                THEN /\ ops' = ops \o <<"starttls", "close">>
                     /\ smtp' = ExitSession(smtp)
                     /\ Raise(exc)
                     /\ UNCHANGED log
                ELSE /\ ops' = Append(ops, "starttls")
                     /\ log' = Append(log, ClearTextWarning)
                     /\ pc' = "login"
                     /\ UNCHANGED <<smtp, raised, returned, caller_exc>>
       \/ /\ starttls_outcome' = "OSError"
          /\ ops' = ops \o <<"starttls", "close">>
          /\ smtp' = ExitSession(smtp)
          /\ Raise("OSError")
          /\ UNCHANGED log
    /\ UNCHANGED <<ssl, passwd, background, emails, idx, result, attempts,
                   stdout, login_outcome, adminVars>>

\* _send: smtp.login(self.login_name, self._passwd).
Login ==
    /\ pc = "login"
    /\ \/ /\ login_outcome' = "ok"
          /\ ops' = Append(ops, "login")
          /\ pc' = "loop"
          /\ UNCHANGED <<smtp, raised, returned, caller_exc>>
       \/ /\ login_outcome' = "SMTPAuthenticationError"
          /\ ops' = ops \o <<"login", "close">>
          /\ smtp' = ExitSession(smtp)
          /\ Raise("SMTPAuthenticationError")
    /\ UNCHANGED <<ssl, passwd, background, emails, idx, result, attempts, log,
                   stdout, starttls_outcome, adminVars>>

\* _send: one iteration of the for loop, smtp.send_message(email) succeeding
\* or raising an Exception, which the except clause logs.
SendMessage ==
    /\ pc = "loop"
    /\ idx < Len(emails)
    /\ \E ok \in BOOLEAN :
          /\ attempts' = Append(attempts, [email |-> emails[idx + 1], ok |-> ok])
          /\ result' = ResultAfter(result, ok)
          /\ log' = IF ok THEN log
                    ELSE Append(log, CaughtException(emails[idx + 1]))
          /\ idx' = NextIndex(idx, ok)
    /\ ops' = Append(ops, "send_message")
    /\ UNCHANGED <<ssl, passwd, pc, background, emails, smtp, stdout, raised,
                   returned, caller_exc, starttls_outcome,
                   login_outcome, adminVars>>

\* _send: an error that `except Exception` does not cover leaves the loop:
\* one raised by iterating emails, by smtp.quit(), or a BaseException.
LoopInterrupted ==
    /\ pc = "loop"
    /\ ops' = Append(ops, "close")
    /\ smtp' = ExitSession(smtp)
    /\ Raise("Interrupted")
    /\ UNCHANGED <<ssl, passwd, background, emails, idx, result, attempts, log,
                   stdout, starttls_outcome,
                   login_outcome, adminVars>>

\* _send: smtp.quit() after the loop, the end of the with block, and
\* return result.
Quit ==
    /\ pc = "loop"
    /\ idx >= Len(emails)
    /\ ops' = ops \o <<"quit", "close">>
    /\ smtp' = ExitSession(smtp)
    /\ returned' = SendReturn(background, BoolValue(result))
    /\ pc' = "done"
    /\ UNCHANGED <<ssl, passwd, background, emails, idx, result, attempts, log,
                   stdout, raised, caller_exc, starttls_outcome,
                   login_outcome, adminVars>>

Init == MailerInit /\ AdminIdle

Next ==
    \/ Send
    \/ SendBegin
    \/ Connect
    \/ StartTLS
    \/ Login
    \/ SendMessage
    \/ LoopInterrupted
    \/ Quit

Spec == Init /\ [][Next]_vars

(***************************************************************************)
(* AdminMailer: send calls whose batches are generated lazily by the       *)
(* mails generator while Mailer._send runs on a background thread          *)
(***************************************************************************)

Admins == 1..NumAdmins

\* ErrMail.__call__: the email for one admin, built from the issuer it is given.
ErrMail(admin, issuer) == [recipient |-> admin, issuer |-> issuer.name]

\* The issuer's volatile data changes (the reason snapshots are taken).
IssuerChanges ==
    /\ issuer_name < MaxVersion
    /\ issuer_name' = issuer_name + 1
    /\ UNCHANGED <<issuer_snapshot, calls, call_snapshot, tpc, gen_idx, mails,
                   mailerVars>>

\* AdminMailer.send: stores a fresh snapshot in self.issuer_snapshot, creates
\* the mails generator (nothing of it runs yet) and hands it to Mailer.send,
\* which starts the background thread and returns.
AdminSend ==
    /\ calls < MaxCalls
    /\ calls' = calls + 1
    /\ issuer_snapshot' = IssuerSnapshot(issuer_name)
    /\ call_snapshot' = [call_snapshot EXCEPT ![calls + 1] = IssuerSnapshot(issuer_name)]
    /\ tpc' = [tpc EXCEPT ![calls + 1] = "presend"]
    /\ UNCHANGED <<issuer_name, gen_idx, mails, mailerVars>>

\* The thread's _send up to the loop: connect, starttls and login succeed, or
\* one of them raises and the thread ends.
ThreadPreSend(c) ==
    /\ tpc[c] = "presend"
    /\ \/ tpc' = [tpc EXCEPT ![c] = "loop"]
       \/ tpc' = [tpc EXCEPT ![c] = "raised"]
    /\ UNCHANGED <<issuer_name, issuer_snapshot, calls, call_snapshot, gen_idx,
                   mails, mailerVars>>

\* One iteration of the thread's for loop: the mails generator is resumed,
\* reads self.issuer_snapshot and yields the next admin's email, which is
\* then handed to smtp.send_message.
ThreadSendNext(c) ==
    /\ tpc[c] = "loop"
    /\ gen_idx[c] < NumAdmins
    /\ \E ok \in BOOLEAN :
          /\ mails' = [mails EXCEPT ![c] =
                          Append(@, ErrMail(gen_idx[c] + 1, issuer_snapshot))]
          /\ gen_idx' = [gen_idx EXCEPT ![c] = NextIndex(@, ok)]
    /\ UNCHANGED <<issuer_name, issuer_snapshot, calls, call_snapshot, tpc,
                   mailerVars>>

\* The generator is exhausted: smtp.quit() and the thread ends.
ThreadQuit(c) ==
    /\ tpc[c] = "loop"
    /\ gen_idx[c] >= NumAdmins
    /\ tpc' = [tpc EXCEPT ![c] = "done"]
    /\ UNCHANGED <<issuer_name, issuer_snapshot, calls, call_snapshot, gen_idx,
                   mails, mailerVars>>

NextAdmin ==
    \/ IssuerChanges
    \/ AdminSend
    \/ \E c \in 1..MaxCalls : ThreadPreSend(c)
    \/ \E c \in 1..MaxCalls : ThreadSendNext(c)
    \/ \E c \in 1..MaxCalls : ThreadQuit(c)

SpecAdmin == Init /\ [][NextAdmin]_vars

(***************************************************************************)
(* Properties                                                              *)
(***************************************************************************)

Count(seq, x) == Cardinality({i \in DOMAIN seq : seq[i] = x})

IsFailed(a) == ~a.ok
FailedAttempts == SelectSeq(attempts, IsFailed)
FailedMessages == [i \in DOMAIN FailedAttempts |-> FailedAttempts[i].email]

\* login succeeded in this invocation.
Authenticated == login_outcome = "ok"

\* The SMTP operations of an invocation that runs to its return statement.
PreSendOps ==
    <<"connect">> \o (IF AttemptsStartTLS(ssl) THEN <<"starttls">> ELSE <<>>)
        \o <<"login">>
CompleteOps ==
    PreSendOps \o [i \in 1..Len(emails) |-> "send_message"] \o <<"quit", "close">>

\* The errors that abort a batch before any email is sent.
FatalErrors ==
    {"SMTPConnectError", "SMTPAuthenticationError"} \cup CaughtByStartTLS

\* C1: when a transmission of the batch failed, the value send reports carries
\* exactly the emails whose transmission failed, in batch order.
C1_ReportCarriesFailedEmails ==
    (pc = "done" /\ FailedMessages # <<>>)
        => FailedCollection(returned) = FailedMessages

\* C2: once authenticated, the emails are attempted one by one in batch order,
\* each once and none again; a failed attempt leaves the loop running; and an
\* invocation that was not interrupted closes the session only after all n
\* emails were attempted (n send_message operations, then quit and close).
C2_EachEmailAttemptedOnceInOrder ==
    /\ Len(attempts) <= Len(emails)
    /\ \A i \in DOMAIN attempts : attempts[i].email = emails[i]
    /\ attempts # <<>> => Authenticated
    /\ (Authenticated /\ raised # "Interrupted" /\ Len(attempts) < Len(emails))
          => (pc = "loop" /\ smtp = "open")
    /\ (Authenticated /\ raised # "Interrupted" /\ smtp = "closed")
          => (Len(attempts) = Len(emails) /\ ops = CompleteOps)

C2_Witness ==
    /\ pc = "done"
    /\ Len(attempts) >= 2
    /\ ~attempts[1].ok
    /\ attempts[2].email # attempts[1].email

\* C3: an invocation in which connect, the security step and login succeed
\* and no transmission fails performs connect, the security step, login and
\* close and ends with the result True, which a foreground send returns; the
\* result is never True when a transmission failed.
C3_SuccessIffNoFailure ==
    /\ (pc = "done" /\ FailedMessages = <<>>)
          => /\ result = TRUE
             /\ ops = CompleteOps
             /\ smtp = "closed"
             /\ ~background => returned = "True"
    /\ (pc = "done" /\ FailedMessages # <<>>)
          => /\ result = FALSE
             /\ ~background => returned = "False"
    /\ FailedMessages # <<>> => returned # "True"

C3_Witness ==
    /\ pc = "done"
    /\ emails = <<>>
    /\ ~background
    /\ returned = "True"

\* C4: a STARTTLS failure under ssl = True and a login failure leave _send as
\* that exception, with no email attempted and no result returned.
C4_FatalBeforeAnyAttempt ==
    /\ (ssl = "True" /\ starttls_outcome \in CaughtByStartTLS)
          => /\ pc = "raised"
             /\ raised = starttls_outcome
             /\ login_outcome = "none"
    /\ login_outcome = "SMTPAuthenticationError"
          => (pc = "raised" /\ raised = "SMTPAuthenticationError")
    /\ raised \in FatalErrors
          => /\ attempts = <<>>
             /\ Count(ops, "send_message") = 0
             /\ returned \notin {"True", "False"}

C4_Witness ==
    /\ ssl = "True"
    /\ starttls_outcome = "SSLError"
    /\ pc = "raised"
    /\ emails # <<>>

\* C5: under ssl = False no STARTTLS is attempted and the clear-text warning
\* is logged exactly once in the invocation.
C5_DisabledWarnsOnce ==
    (ssl = "False" /\ pc = "done")
        => /\ starttls_outcome = "none"
           /\ Count(ops, "starttls") = 0
           /\ Count(log, ClearTextWarning) = 1

C7_SessionReleased ==
    pc \in {"done", "raised"}
        => /\ smtp # "open"
           /\ smtp = "none" <=> raised = "SMTPConnectError"
           /\ smtp = "closed" => ops[Len(ops)] = "close"

C7_Witness ==
    /\ pc = "raised"
    /\ raised = "Interrupted"
    /\ attempts # <<>>
    /\ smtp = "closed"

\* C8: the secret is in nothing the Mailer renders or emits: not in
\* str(mailer), not in a log record, not on standard output.
C8_SecretNeverEmitted ==
    /\ passwd \notin Range(MailerStr)
    /\ \A i \in DOMAIN log : passwd \notin Range(log[i])
    /\ \A i \in DOMAIN stdout : passwd \notin Range(stdout[i])

C10_MailsUseOwnSnapshot ==
    \A c \in 1..calls : \A i \in DOMAIN mails[c] :
        mails[c][i].issuer = call_snapshot[c].name

=============================================================================
